---- MODULE Spec2Model ----
(***************************************************************************)
(* The live trading engine of src/index.tsx: the 1-second updateLoop and   *)
(* handleToggleBot (start / stop), as a state machine over the React state *)
(* `status`, the trade history and the orders sent to placeUpbitOrder.     *)
(*                                                                         *)
(* Every `await` of the source is a point where other callbacks run, so an *)
(* updateLoop invocation is split at its awaits: TickFire (the interval    *)
(* fires, line 188), TickDecide (fetchTickerData resolved, lines 193-280), *)
(* SellOk, SellFail, BuyOk, BuyFail (placeUpbitOrder settled).  The values *)
(* an invocation keeps in its closure across an await (currentPrice,       *)
(* currentStatus, currentBuyAmount) are kept in `cur`.                     *)
(*                                                                         *)
(* statusRef.current / isStartingRef.current are assigned from the state   *)
(* in an effect after each commit (lines 92-95); they are read here as the *)
(* committed state.  JavaScript numbers are modelled as exact rationals    *)
(* <<numerator, denominator>>.  State that is only displayed (price flash, *)
(* price history, network-error flag, status.pnlPercentage and             *)
(* status.currentChangeRate) is left out; status.currentPrice is kept.     *)
(*                                                                         *)
(* Spec is the live engine with the configuration it was loaded with,      *)
(* SpecEdit adds handleChange (the strategy form), SpecBacktest is         *)
(* runBacktest (lines 372-438), SpecBacktestLive is the same with the      *)
(* replay running on to the end of its list, SpecKernel evaluates the      *)
(* pricing expressions on their own, SpecLockstep feeds the live tick and  *)
(* the replay the same flat bars, and SpecVariant is the second App of     *)
(* src/components/InputGroup.tsx.                                          *)
(***************************************************************************)
EXTENDS Integers, Sequences, FiniteSets, TLC

(***************************************************************************)
(* Bounds of the model.                                                    *)
(***************************************************************************)
\* The interval fires only while the trade history, with one record for every
\* updateLoop invocation in flight, stays within MaxHistory records; this also
\* bounds the number of invocations in flight at once.
MaxHistory == 2

\* The candles of one backtest: fetchDailyCandlesLong returns up to 730.
MaxBars == 4

\* The ladder steps at which the buy size is evaluated on its own.
MaxSizeStep == 3

(***************************************************************************)
(* Exact rational arithmetic for JavaScript's number type.                 *)
(***************************************************************************)
Abs(n) == IF n < 0 THEN -n ELSE n

RECURSIVE GCD(_, _)
GCD(a, b) == IF b = 0 THEN a ELSE GCD(b, a % b)

Norm(n, d) ==
    LET g == GCD(Abs(n), Abs(d))
        s == IF d < 0 THEN -1 ELSE 1
    IN  << (s * n) \div g, (s * d) \div g >>

R(n) == << n, 1 >>

RAdd(a, b) ==
    LET g == GCD(a[2], b[2])
    IN  Norm(a[1] * (b[2] \div g) + b[1] * (a[2] \div g), a[2] * (b[2] \div g))

RNeg(a) == << -a[1], a[2] >>

RSub(a, b) == RAdd(a, RNeg(b))

RMul(a, b) ==
    LET g1 == GCD(Abs(a[1]), b[2])
        g2 == GCD(Abs(b[1]), a[2])
    IN  Norm((a[1] \div g1) * (b[1] \div g2), (a[2] \div g2) * (b[2] \div g1))

\* b # 0
RDiv(a, b) == RMul(a, Norm(b[2], b[1]))

RLe(a, b) ==
    LET g == GCD(a[2], b[2])
    IN  a[1] * (b[2] \div g) <= b[1] * (a[2] \div g)

RLt(a, b) == ~RLe(b, a)

RECURSIVE RPow(_, _)
RPow(a, k) == IF k = 0 THEN R(1) ELSE RMul(a, RPow(a, k - 1))

Zero == R(0)

(***************************************************************************)
(* Inputs: the prices the ticker may report and the strategy               *)
(* configurations a run may be started with.                               *)
(***************************************************************************)
Prices == {80, 90, 100}

\* a three-rung ladder of equal buys
ConfLadder ==
    [maxBuySteps |-> 3, buyInterval |-> 10, targetProfit |-> 10,
     stopLoss |-> 20, initialAmount |-> 1, premiumRate |-> 0]
\* a two-rung ladder whose second buy is 10% larger
ConfTwo ==
    [maxBuySteps |-> 2, buyInterval |-> 10, targetProfit |-> 10,
     stopLoss |-> 20, initialAmount |-> 1, premiumRate |-> 10]
\* a single rung; both exit bounds are met at pnl = 0
ConfZero ==
    [maxBuySteps |-> 1, buyInterval |-> 10, targetProfit |-> 0,
     stopLoss |-> 0, initialAmount |-> 1, premiumRate |-> 0]

Configs == {ConfLadder, ConfTwo, ConfZero}

TickIds == 1 .. MaxHistory

(***************************************************************************)
(* State.                                                                  *)
(***************************************************************************)
VARIABLES
    config,         \* useState<TradingConfig>, the strategy fields
    status,         \* useState<TradeStatus & {lastBuyPrice}>
    tradeHistory,   \* useState<TradeRecord[]>, newest first
    isStarting,     \* useState(false), mirrored by isStartingRef
    pc,             \* per updateLoop invocation: the await it is suspended at
    cur,            \* per updateLoop invocation: its closure after the fetch
    startPc,        \* handleToggleBot (start): the await it is suspended at
    startCur,       \* handleToggleBot (start): its closure
    lastSettled,    \* history: the latest call of placeUpbitOrder that returned
    exits,          \* history: exit decisions taken on the open position
    bt,             \* runBacktest: its position (await / bar loop) and locals
    btResult,       \* useState<BacktestResult | null>
    kern            \* one evaluation of the pricing expressions: inputs, outputs

vars == << config, status, tradeHistory, isStarting, pc, cur, startPc,
          startCur, lastSettled, exits, bt, btResult, kern >>

\* the live engine's variables
live == << status, tradeHistory, isStarting, pc, cur, startPc, startCur,
          lastSettled, exits >>

\* the initial value of `status`, index.tsx lines 56-66
InitStatus ==
    [isActive |-> FALSE, currentStep |-> 0, averagePrice |-> Zero,
     totalQuantity |-> Zero, totalInvested |-> Zero, currentPrice |-> 0,
     lastBuyPrice |-> 0]

\* the arguments of a pending call placeUpbitOrder(coin, side, ord_type, ...):
\* the amount of a 'price' order, the volume of a 'market' order
Order(side, ordType, size) ==
    [side |-> side, ord_type |-> ordType, size |-> size]

NoOrder == Order("none", "none", Zero)

\* the fields of currentStatus an invocation reads after its await
Snapshot(st) ==
    [currentStep |-> st.currentStep, totalQuantity |-> st.totalQuantity,
     totalInvested |-> st.totalInvested]

NoSnapshot == [currentStep |-> 0, totalQuantity |-> Zero, totalInvested |-> Zero]

NoCur == [currentPrice |-> 0, currentStatus |-> NoSnapshot, order |-> NoOrder]

NoStart == [buyPrice |-> 0, order |-> NoOrder]

\* the outcome of a call of placeUpbitOrder
Settled(side, res) == [side |-> side, result |-> res]

NoSettled == Settled("none", "none")

\* line 379: the locals of runBacktest before the first candle; pc is the
\* point runBacktest is at, bars the candles consumed, candle / event / fills
\* what the last iteration of the for loop read and did, seen the candles
\* consumed so far, currentEquity the
\* equity it computed (line 422) and rising whether no iteration so far
\* computed a lower equity than the one before it
BtLocals(at) ==
    [pc |-> at, bars |-> 0,
     balance |-> Zero, step |-> 0, totalQty |-> Zero, avgPrice |-> Zero,
     lastBuyPrice |-> Zero, trades |-> 0, wins |-> 0, losses |-> 0,
     totalInvested |-> Zero, peak |-> Zero, mdd |-> Zero,
     candle |-> [price |-> Zero, low |-> Zero, high |-> Zero],
     event |-> "none", fills |-> 0, seen |-> << >>,
     currentEquity |-> Zero, rising |-> TRUE]

BtIdle == BtLocals("idle")

\* line 76: useState<BacktestResult | null>(null)
NoBtResult == [set |-> FALSE]

\* no evaluation requested
NoKern == [done |-> FALSE, asked |-> FALSE]

\* lines 56-95: the live engine after construction
LiveInit ==
    /\ status = InitStatus
    /\ tradeHistory = << >>
    /\ isStarting = FALSE
    /\ pc = [t \in TickIds |-> "idle"]
    /\ cur = [t \in TickIds |-> NoCur]
    /\ startPc = "idle"
    /\ startCur = NoStart
    /\ lastSettled = NoSettled
    /\ exits = 0

Init ==
    /\ config \in Configs
    /\ LiveInit
    /\ bt = BtIdle
    /\ btResult = NoBtResult
    /\ kern = NoKern

(***************************************************************************)
(* The decision arithmetic of updateLoop.                                  *)
(***************************************************************************)
\* line 208: ((currentPrice - averagePrice) / (averagePrice || currentPrice)) * 100
Pnl(st, price) ==
    RMul(RDiv(RSub(R(price), st.averagePrice),
              IF st.averagePrice = Zero THEN R(price) ELSE st.averagePrice),
         R(100))

\* line 210: pnl >= targetProfit || pnl <= -stopLoss
ExitCond(pnl, conf) ==
    RLe(R(conf.targetProfit), pnl) \/ RLe(pnl, R(-conf.stopLoss))

\* ExitType with the stop-loss test first
ExitType_LossFirst(pnl, conf) ==
    IF RLe(pnl, R(-conf.stopLoss)) THEN "LOSS" ELSE "PROFIT"

\* line 211: pnl >= targetProfit ? 'PROFIT' : 'LOSS'
ExitType(pnl, conf) ==
    IF RLe(R(conf.targetProfit), pnl) THEN "PROFIT" ELSE "LOSS"

\* line 244: lastBuyPrice * (1 - buyInterval / 100)
NextBuyThreshold(st, conf) ==
    RMul(R(st.lastBuyPrice), RSub(R(1), RDiv(R(conf.buyInterval), R(100))))

\* ScaleCond with the step cap off by one
ScaleCond_CapOffByOne(st, conf, price) ==
    /\ st.currentStep <= conf.maxBuySteps
    /\ RLe(R(price), NextBuyThreshold(st, conf))

\* line 244: currentStep < maxBuySteps && currentPrice <= lastBuyPrice * (...)
ScaleCond(st, conf, price) ==
    /\ st.currentStep < conf.maxBuySteps
    /\ RLe(R(price), NextBuyThreshold(st, conf))

\* BuyAmount with the premium applied from the first step on
BuyAmount_ExponentIsStep(conf, nextStep) ==
    RMul(R(conf.initialAmount * 10000),
         RPow(RAdd(R(1), RDiv(R(conf.premiumRate), R(100))), nextStep))

\* line 246: (initialAmount * 10000) * Math.pow(1 + premiumRate / 100, nextStep - 1)
BuyAmount(conf, nextStep) ==
    RMul(R(conf.initialAmount * 10000),
         RPow(RAdd(R(1), RDiv(R(conf.premiumRate), R(100))), nextStep - 1))

\* Decision with the scale-in test ahead of the exit test
Decision_ScaleFirst(st, conf, price) ==
    IF ~st.isActive THEN "inactive"
    ELSE IF ScaleCond(st, conf, price) THEN "scale"
    ELSE IF ExitCond(Pnl(st, price), conf) THEN "exit"
    ELSE "hold"

\* Decision without the isActive test of line 207
Decision_NoActiveTest(st, conf, price) ==
    IF ExitCond(Pnl(st, price), conf) THEN "exit"
    ELSE IF ScaleCond(st, conf, price) THEN "scale"
    ELSE "hold"

\* the if / else-if chain of lines 207-280
Decision(st, conf, price) ==
    IF ~st.isActive THEN "inactive"
    ELSE IF ExitCond(Pnl(st, price), conf) THEN "exit"
    ELSE IF ScaleCond(st, conf, price) THEN "scale"
    ELSE "hold"

\* lines 212-222
Record(st, conf, price) ==
    [exitType |-> ExitType(Pnl(st, price), conf),
     pnlPercentage |-> Pnl(st, price),
     pnlAmount |-> RMul(st.totalInvested, RDiv(Pnl(st, price), R(100))),
     totalInvested |-> st.totalInvested,
     finalStep |-> st.currentStep]

InFlight == {t \in TickIds : pc[t] # "idle"}

(***************************************************************************)
(* updateLoop, one action per segment between awaits.                      *)
(***************************************************************************)
\* setInterval(updateLoop, 1000) fires; line 188 returns while starting
TickFire(t) ==
    /\ pc[t] = "idle"
    /\ \A u \in TickIds : u < t => pc[u] # "idle"
    /\ Len(tradeHistory) + Cardinality(InFlight) < MaxHistory
    /\ ~isStarting
    /\ pc' = [pc EXCEPT ![t] = "fetching"]
    /\ UNCHANGED << kern, bt, btResult >>
    /\ UNCHANGED << config, status, tradeHistory, isStarting, cur, startPc,
                    startCur, lastSettled, exits >>

\* fetchTickerData resolved to null (lines 288-290)
TickFetchFail(t) ==
    /\ pc[t] = "fetching"
    /\ pc' = [pc EXCEPT ![t] = "idle"]
    /\ UNCHANGED << kern, bt, btResult >>
    /\ UNCHANGED << config, status, tradeHistory, isStarting, cur, startPc,
                    startCur, lastSettled, exits >>

\* fetchTickerData resolved to a ticker with price p (lines 193-280)
TickDecide(t, p) ==
    /\ pc[t] = "fetching"
    /\ LET d == Decision(status, config, p)
       IN  CASE d = "inactive" ->
                  /\ status' = [status EXCEPT !.currentPrice = p]
                  /\ pc' = [pc EXCEPT ![t] = "idle"]
                  /\ UNCHANGED << tradeHistory, cur, exits >>
             [] d = "exit" ->
                  /\ tradeHistory' =
                        << Record(status, config, p) >> \o tradeHistory
                  /\ cur' = [cur EXCEPT ![t] =
                        [currentPrice |-> p, currentStatus |-> NoSnapshot,
                         order |-> Order("ask", "market",
                                         status.totalQuantity)]]
                  /\ pc' = [pc EXCEPT ![t] = "selling"]
                  /\ exits' = exits + 1
                  /\ UNCHANGED status
             [] d = "scale" ->
                  /\ cur' = [cur EXCEPT ![t] =
                        [currentPrice |-> p, currentStatus |-> Snapshot(status),
                         order |-> Order("bid", "price",
                                BuyAmount(config, status.currentStep + 1))]]
                  /\ pc' = [pc EXCEPT ![t] = "buying"]
                  /\ UNCHANGED << status, tradeHistory, exits >>
             [] d = "hold" ->
                  /\ status' = [status EXCEPT !.currentPrice = p]
                  /\ pc' = [pc EXCEPT ![t] = "idle"]
                  /\ UNCHANGED << tradeHistory, cur, exits >>
    /\ UNCHANGED << kern, bt, btResult >>
    /\ UNCHANGED << config, isStarting, startPc, startCur, lastSettled >>

\* lines 231-242: the reset after the exit order, whatever its outcome
ExitReset(st, price) ==
    [st EXCEPT !.isActive = FALSE, !.currentStep = 0,
               !.totalInvested = Zero, !.totalQuantity = Zero,
               !.averagePrice = Zero, !.lastBuyPrice = 0,
               !.currentPrice = price]

\* ExitFailed keeping the position open when the exit order threw
ExitFailed_KeepOpen(st, price) == st

\* lines 227-229 and 231-242: the position after the exit order threw
ExitFailed(st, price) == ExitReset(st, price)

\* the exit order of line 226 resolved
SellOk(t) ==
    /\ pc[t] = "selling"
    /\ lastSettled' = Settled("ask", "ok")
    /\ status' = ExitReset(status, cur[t].currentPrice)
    /\ pc' = [pc EXCEPT ![t] = "idle"]
    /\ cur' = [cur EXCEPT ![t] = NoCur]
    /\ UNCHANGED << kern, bt, btResult >>
    /\ UNCHANGED << config, tradeHistory, isStarting, startPc, startCur,
                    exits >>

\* the exit order of line 226 threw
SellFail(t) ==
    /\ pc[t] = "selling"
    /\ lastSettled' = Settled("ask", "fail")
    /\ status' = ExitFailed(status, cur[t].currentPrice)
    /\ pc' = [pc EXCEPT ![t] = "idle"]
    /\ cur' = [cur EXCEPT ![t] = NoCur]
    /\ UNCHANGED << kern, bt, btResult >>
    /\ UNCHANGED << config, tradeHistory, isStarting, startPc, startCur,
                    exits >>

\* ApplyBuy dividing the new total by the quantity held before the fill
ApplyBuy_OldQuantity(st, c) ==
    LET nextStep == c.currentStatus.currentStep + 1
        currentBuyAmount == c.order.size
        newTotalInvested ==
            RAdd(c.currentStatus.totalInvested, currentBuyAmount)
        newTotalQuantity ==
            RAdd(c.currentStatus.totalQuantity,
                 RDiv(currentBuyAmount, R(c.currentPrice)))
        newAveragePrice ==
            RDiv(newTotalInvested, c.currentStatus.totalQuantity)
    IN  [st EXCEPT !.currentStep = nextStep,
                   !.averagePrice = newAveragePrice,
                   !.totalQuantity = newTotalQuantity,
                   !.totalInvested = newTotalInvested,
                   !.lastBuyPrice = c.currentPrice,
                   !.currentPrice = c.currentPrice]

\* lines 245 and 251-265: the position after a scale-in fill, from the closure
ApplyBuy(st, c) ==
    LET nextStep == c.currentStatus.currentStep + 1
        currentBuyAmount == c.order.size
        newTotalInvested ==
            RAdd(c.currentStatus.totalInvested, currentBuyAmount)
        newTotalQuantity ==
            RAdd(c.currentStatus.totalQuantity,
                 RDiv(currentBuyAmount, R(c.currentPrice)))
        newAveragePrice == RDiv(newTotalInvested, newTotalQuantity)
    IN  [st EXCEPT !.currentStep = nextStep,
                   !.averagePrice = newAveragePrice,
                   !.totalQuantity = newTotalQuantity,
                   !.totalInvested = newTotalInvested,
                   !.lastBuyPrice = c.currentPrice,
                   !.currentPrice = c.currentPrice]

\* the scale-in order of line 249 resolved
BuyOk(t) ==
    /\ pc[t] = "buying"
    /\ lastSettled' = Settled("bid", "ok")
    /\ status' = ApplyBuy(status, cur[t])
    /\ pc' = [pc EXCEPT ![t] = "idle"]
    /\ cur' = [cur EXCEPT ![t] = NoCur]
    /\ UNCHANGED << kern, bt, btResult >>
    /\ UNCHANGED << config, tradeHistory, isStarting, startPc, startCur,
                    exits >>

\* BuyRejected advancing the ladder although the order threw
BuyRejected_StepAdvanced(st, c) ==
    [st EXCEPT !.currentStep = c.currentStatus.currentStep + 1,
               !.lastBuyPrice = c.currentPrice]

\* lines 266-268: the position after the scale-in order threw
BuyRejected(st, c) == st

\* the scale-in order of line 249 threw
BuyFail(t) ==
    /\ pc[t] = "buying"
    /\ lastSettled' = Settled("bid", "fail")
    /\ status' = BuyRejected(status, cur[t])
    /\ pc' = [pc EXCEPT ![t] = "idle"]
    /\ cur' = [cur EXCEPT ![t] = NoCur]
    /\ UNCHANGED << kern, bt, btResult >>
    /\ UNCHANGED << config, tradeHistory, isStarting, startPc, startCur,
                    exits >>

(***************************************************************************)
(* handleToggleBot.  The button is disabled while isStarting (line 739).   *)
(***************************************************************************)
\* StartBegin without the test of status.isActive
StartBegin_NoActiveCheck ==
    /\ ~isStarting
    /\ isStarting' = TRUE
    /\ startPc' = "fetch"
    /\ UNCHANGED << kern, bt, btResult >>
    /\ UNCHANGED << config, status, tradeHistory, pc, cur, startCur,
                    lastSettled, exits >>

\* lines 326-332, inactive branch, up to the first await
StartBegin ==
    /\ ~status.isActive
    /\ ~isStarting
    /\ isStarting' = TRUE
    /\ startPc' = "fetch"
    /\ UNCHANGED << kern, bt, btResult >>
    /\ UNCHANGED << config, status, tradeHistory, pc, cur, startCur,
                    lastSettled, exits >>

\* line 335: no ticker, the error is alerted and isStarting cleared
StartFetchFail ==
    /\ startPc = "fetch"
    /\ startPc' = "idle"
    /\ isStarting' = FALSE
    /\ UNCHANGED << kern, bt, btResult >>
    /\ UNCHANGED << config, status, tradeHistory, pc, cur, startCur,
                    lastSettled, exits >>

\* lines 337-340: the initial buy order is placed
StartFetchOk(p) ==
    /\ startPc = "fetch"
    /\ startPc' = "order"
    /\ startCur' = [buyPrice |-> p,
                    order |-> Order("bid", "price",
                                    R(config.initialAmount * 10000))]
    /\ UNCHANGED << kern, bt, btResult >>
    /\ UNCHANGED << config, status, tradeHistory, isStarting, pc, cur,
                    lastSettled, exits >>

\* StartStatus taking the amount paid for the quantity bought
StartStatus_QuantityIsAmount(c) ==
    LET initialBuyAmount == c.order.size
    IN  [isActive |-> TRUE, currentStep |-> 1, averagePrice |-> R(c.buyPrice),
         lastBuyPrice |-> c.buyPrice,
         totalQuantity |-> initialBuyAmount,
         totalInvested |-> initialBuyAmount, currentPrice |-> c.buyPrice]

\* lines 342-352: the position after the initial fill
StartStatus(c) ==
    LET initialBuyAmount == c.order.size
    IN  [isActive |-> TRUE, currentStep |-> 1, averagePrice |-> R(c.buyPrice),
         lastBuyPrice |-> c.buyPrice,
         totalQuantity |-> RDiv(initialBuyAmount, R(c.buyPrice)),
         totalInvested |-> initialBuyAmount, currentPrice |-> c.buyPrice]

\* the initial order resolved, lines 342-357
StartOrderOk ==
    /\ startPc = "order"
    /\ lastSettled' = Settled("bid", "ok")
    /\ status' = StartStatus(startCur)
    /\ exits' = 0
    /\ startPc' = "idle"
    /\ startCur' = NoStart
    /\ isStarting' = FALSE
    /\ UNCHANGED << kern, bt, btResult >>
    /\ UNCHANGED << config, tradeHistory, pc, cur >>

\* StartOrderFail opening the position although the order threw
StartOrderFail_OpensPosition ==
    /\ startPc = "order"
    /\ lastSettled' = Settled("bid", "fail")
    /\ status' = StartStatus(startCur)
    /\ startPc' = "idle"
    /\ startCur' = NoStart
    /\ isStarting' = FALSE
    /\ UNCHANGED << kern, bt, btResult >>
    /\ UNCHANGED << config, tradeHistory, pc, cur, exits >>

\* the initial order threw, lines 353-357
StartOrderFail ==
    /\ startPc = "order"
    /\ lastSettled' = Settled("bid", "fail")
    /\ startPc' = "idle"
    /\ startCur' = NoStart
    /\ isStarting' = FALSE
    /\ UNCHANGED << kern, bt, btResult >>
    /\ UNCHANGED << config, status, tradeHistory, pc, cur, exits >>

\* StopReset leaving the last fill price behind
StopReset_KeepsLastBuy(st) ==
    [st EXCEPT !.isActive = FALSE, !.currentStep = 0,
               !.averagePrice = Zero, !.totalInvested = Zero,
               !.totalQuantity = Zero]

\* lines 359-368: the reset of the active branch
StopReset(st) ==
    [st EXCEPT !.isActive = FALSE, !.currentStep = 0,
               !.averagePrice = Zero, !.totalInvested = Zero,
               !.totalQuantity = Zero, !.lastBuyPrice = 0]

\* handleToggleBot on an active position
Stop ==
    /\ status.isActive
    /\ ~isStarting
    /\ status' = StopReset(status)
    /\ UNCHANGED << kern, bt, btResult >>
    /\ UNCHANGED << config, tradeHistory, isStarting, pc, cur, startPc,
                    startCur, lastSettled, exits >>

\* lines 325-370: a press of the start / stop button
HandleToggleBot == StartBegin \/ Stop

Next ==
    \/ \E t \in TickIds : TickFire(t)
    \/ \E t \in TickIds : TickFetchFail(t)
    \/ \E t \in TickIds, p \in Prices : TickDecide(t, p)
    \/ \E t \in TickIds : SellOk(t)
    \/ \E t \in TickIds : SellFail(t)
    \/ \E t \in TickIds : BuyOk(t)
    \/ \E t \in TickIds : BuyFail(t)
    \/ StartBegin
    \/ StartFetchFail
    \/ \E p \in Prices : StartFetchOk(p)
    \/ StartOrderOk
    \/ StartOrderFail
    \/ Stop

Spec == Init /\ [][Next]_vars

\* lines 721-730: the strategy inputs stay enabled while the bot runs; the
\* fields and values a user types here
EditFields == {"maxBuySteps", "premiumRate"}

EditValues(field) ==
    IF field = "maxBuySteps" THEN {1, 2, 3} ELSE {0, 10}

\* lines 300-305 and 93: setConfig with one field replaced, mirrored into
\* configRef; onChange fires only when the value differs
HandleChange(field, value) ==
    /\ config[field] # value
    /\ config' = [config EXCEPT ![field] = value]
    /\ UNCHANGED << status, tradeHistory, isStarting, pc, cur, startPc,
                    startCur, lastSettled, exits >>
    /\ UNCHANGED << kern, bt, btResult >>

NextEdit ==
    \/ Next
    \/ \E field \in EditFields : \E value \in EditValues(field) :
           HandleChange(field, value)

\* the live engine with the strategy form in use
SpecEdit == Init /\ [][NextEdit]_vars

(***************************************************************************)
(* runBacktest, lines 372-438: the replay of daily candles.  The await of  *)
(* fetchDailyCandlesLong is one step, each iteration of the for loop is    *)
(* one step (the candle list is chosen candle by candle), setBtResult is   *)
(* the last.  It reads config and writes only its locals and btResult.     *)
(***************************************************************************)
\* a ladder of 2 % rungs
ConfCascade ==
    [maxBuySteps |-> 3, buyInterval |-> 2, targetProfit |-> 3,
     stopLoss |-> 10, initialAmount |-> 1, premiumRate |-> 0]

\* a ladder of 5 % rungs with a 5 % target
ConfScenario ==
    [maxBuySteps |-> 3, buyInterval |-> 5, targetProfit |-> 5,
     stopLoss |-> 10, initialAmount |-> 1, premiumRate |-> 0]

BtConfigs == Configs \cup {ConfCascade, ConfScenario}

\* src/unnamed/part_000 lines 222-228: price = trade_price, high, low
Candle(price, low, high) == [price |-> price, low |-> low, high |-> high]

\* daily candles, low <= price <= high, as exact numbers
Candles ==
    {Candle(R(100), R(100), R(100)), Candle(R(95), R(94), R(100)),
     Candle(R(90), R(85), R(95)), Candle(R(100), R(80), R(110)),
     Candle(R(110), R(100), R(110)), Candle(R(97), R(97), R(99)),
     Candle(R(95), R(95), R(95)), Candle(<< 361, 4 >>, << 361, 4 >>, << 361, 4 >>)}

\* the candles replayed under a configuration: the quarter-priced bar only on
\* the 5 % ladder, which keeps every quotient inside TLC's integers
CandlesFor(conf) ==
    IF conf = ConfScenario
    THEN {c \in Candles : c.low = c.high \/ c.high = R(110)}
    ELSE {c \in Candles : c.price[2] = 1}

\* line 383: candle.low || candle.price
BtLow(candle) == IF candle.low = Zero THEN candle.price ELSE candle.low

\* line 384: candle.high || candle.price
BtHigh(candle) == IF candle.high = Zero THEN candle.price ELSE candle.high

\* line 380
InitialInvestedCapital(conf) == R(conf.initialAmount * 10000)

\* line 394
SlPrice(s, conf) ==
    RMul(s.avgPrice, RSub(R(1), RDiv(R(conf.stopLoss), R(100))))

\* line 395
TpPrice(s, conf) ==
    RMul(s.avgPrice, RAdd(R(1), RDiv(R(conf.targetProfit), R(100))))

\* line 407
NextBuyPrice(s, conf) ==
    RMul(s.lastBuyPrice, RSub(R(1), RDiv(R(conf.buyInterval), R(100))))

\* line 410, step already incremented
BtBuyAmount(conf, step) ==
    RMul(InitialInvestedCapital(conf),
         RPow(RAdd(R(1), RDiv(R(conf.premiumRate), R(100))), step - 1))

\* lines 388-392: the first candle, or the candle after an exit, opens at the
\* candle's price
BtOpen(s, candle, conf) ==
    [s EXCEPT !.step = 1,
              !.totalQty = RDiv(InitialInvestedCapital(conf), candle.price),
              !.avgPrice = candle.price,
              !.lastBuyPrice = candle.price,
              !.totalInvested = InitialInvestedCapital(conf),
              !.event = "open", !.fills = 0]

\* BtExit opening the next position on the exit bar
BtExit_Reopens(s, exitPrice, kind) ==
    [s EXCEPT !.balance = RAdd(s.balance,
                               RSub(RMul(s.totalQty, exitPrice),
                                    s.totalInvested)),
              !.trades = s.trades + 1,
              !.wins = IF kind = "win" THEN s.wins + 1 ELSE s.wins,
              !.losses = IF kind = "loss" THEN s.losses + 1 ELSE s.losses,
              !.step = 1,
              !.totalQty = RDiv(R(10000), exitPrice),
              !.totalInvested = R(10000),
              !.avgPrice = exitPrice, !.lastBuyPrice = exitPrice,
              !.event = kind, !.fills = 0]

\* BtExit counting every exit as a win
BtExit_AlwaysWin(s, exitPrice, kind) ==
    [s EXCEPT !.balance = RAdd(s.balance,
                               RSub(RMul(s.totalQty, exitPrice),
                                    s.totalInvested)),
              !.trades = s.trades + 1,
              !.wins = s.wins + 1,
              !.step = 0, !.totalQty = Zero, !.totalInvested = Zero,
              !.event = kind, !.fills = 0]

\* lines 398-399 and 402-403: the position is closed at exitPrice; avgPrice and
\* lastBuyPrice keep their values
BtExit(s, exitPrice, kind) ==
    [s EXCEPT !.balance = RAdd(s.balance,
                               RSub(RMul(s.totalQty, exitPrice),
                                    s.totalInvested)),
              !.trades = s.trades + 1,
              !.wins = IF kind = "win" THEN s.wins + 1 ELSE s.wins,
              !.losses = IF kind = "loss" THEN s.losses + 1 ELSE s.losses,
              !.step = 0, !.totalQty = Zero, !.totalInvested = Zero,
              !.event = kind, !.fills = 0]

\* BtFill leaving the average price as it was
BtFill_KeepsAverage(s, conf) ==
    LET nextBuyPrice == NextBuyPrice(s, conf)
        step == s.step + 1
        buyAmount == BtBuyAmount(conf, step)
    IN  [s EXCEPT !.step = step,
                  !.totalQty = RAdd(s.totalQty, RDiv(buyAmount, nextBuyPrice)),
                  !.totalInvested = RAdd(s.totalInvested, buyAmount),
                  !.lastBuyPrice = nextBuyPrice,
                  !.fills = s.fills + 1]

\* lines 409-415: one fill at nextBuyPrice
BtFill(s, conf) ==
    LET nextBuyPrice == NextBuyPrice(s, conf)
        step == s.step + 1
        buyAmount == BtBuyAmount(conf, step)
        totalQty == RAdd(s.totalQty, RDiv(buyAmount, nextBuyPrice))
        totalInvested == RAdd(s.totalInvested, buyAmount)
    IN  [s EXCEPT !.step = step, !.totalQty = totalQty,
                  !.totalInvested = totalInvested,
                  !.avgPrice = RDiv(totalInvested, totalQty),
                  !.lastBuyPrice = nextBuyPrice,
                  !.fills = s.fills + 1]

RECURSIVE BtCascade(_, _, _)

\* BtCascade stopping after the first fill
BtCascade_OneFill(s, low, conf) ==
    IF s.step < conf.maxBuySteps /\ RLe(low, NextBuyPrice(s, conf))
    THEN BtFill(s, conf)
    ELSE s

\* lines 406-418: while (step < maxBuySteps) { if (low <= nextBuyPrice) fill
\* else break }
BtCascade(s, low, conf) ==
    IF s.step < conf.maxBuySteps /\ RLe(low, NextBuyPrice(s, conf))
    THEN BtCascade(BtFill(s, conf), low, conf)
    ELSE s

\* BtTrade with the take-profit test ahead of the stop-loss test
BtTrade_ProfitFirst(s, candle, conf) ==
    LET low == BtLow(candle)
        high == BtHigh(candle)
    IN  IF s.step = 0 THEN BtOpen(s, candle, conf)
        ELSE IF RLe(TpPrice(s, conf), high)
             THEN BtExit(s, TpPrice(s, conf), "win")
        ELSE IF RLe(low, SlPrice(s, conf))
             THEN BtExit(s, SlPrice(s, conf), "loss")
        ELSE BtCascade([s EXCEPT !.event = "hold", !.fills = 0], low, conf)

\* lines 387-420: open, stop-loss, take-profit or cascade
BtTrade(s, candle, conf) ==
    LET low == BtLow(candle)
        high == BtHigh(candle)
    IN  IF s.step = 0 THEN BtOpen(s, candle, conf)
        ELSE IF RLe(low, SlPrice(s, conf))
             THEN BtExit(s, SlPrice(s, conf), "loss")
        ELSE IF RLe(TpPrice(s, conf), high)
             THEN BtExit(s, TpPrice(s, conf), "win")
        ELSE BtCascade([s EXCEPT !.event = "hold", !.fills = 0], low, conf)

\* line 422
CurrentEquity(s, price) ==
    RAdd(s.balance,
         IF s.step > 0 THEN RSub(RMul(s.totalQty, price), s.totalInvested)
         ELSE Zero)

\* BtMark keeping the drawdown of the last bar instead of the largest
BtMark_LastDrawdown(s, price) ==
    LET currentEquity == CurrentEquity(s, price)
        peak == IF RLt(s.peak, currentEquity) THEN currentEquity ELSE s.peak
        dd == IF RLe(peak, Zero) THEN Zero
              ELSE RMul(RDiv(RSub(peak, currentEquity), peak), R(100))
    IN  [s EXCEPT !.peak = peak,
                  !.mdd = dd,
                  !.currentEquity = currentEquity,
                  !.rising = s.rising /\ (s.bars = 1
                                            \/ RLe(s.currentEquity,
                                                   currentEquity))]

\* lines 422-425; s.bars already counts this candle
BtMark(s, price) ==
    LET currentEquity == CurrentEquity(s, price)
        peak == IF RLt(s.peak, currentEquity) THEN currentEquity ELSE s.peak
        dd == IF RLe(peak, Zero) THEN Zero
              ELSE RMul(RDiv(RSub(peak, currentEquity), peak), R(100))
    IN  [s EXCEPT !.peak = peak,
                  !.mdd = IF RLt(s.mdd, dd) THEN dd ELSE s.mdd,
                  !.currentEquity = currentEquity,
                  !.rising = s.rising /\ (s.bars = 1
                                            \/ RLe(s.currentEquity,
                                                   currentEquity))]

\* lines 382-426: one iteration of the for loop
BtStep(s, candle, conf) ==
    BtMark([BtTrade(s, candle, conf) EXCEPT !.candle = candle,
                                             !.seen = Append(s.seen, candle),
                                             !.bars = s.bars + 1],
           candle.price)

\* Math.round: the nearest integer, halves upwards
Round(a) ==
    LET q == a[1] \div a[2]
        r == a[1] % a[2]
    IN  q + (2 * r + a[2]) \div (2 * a[2])

\* Number(x.toFixed(2)): the nearest multiple of 1/100, halves away from zero
ToFixed2(a) ==
    LET q == Abs(a[1]) \div a[2]
        r == Abs(a[1]) % a[2]
        m == 100 * q + (200 * r + a[2]) \div (2 * a[2])
    IN  Norm(IF a[1] < 0 THEN -m ELSE m, 100)

\* BacktestResult booking the open position as a trade closed at its mark
BacktestResult_ClosesAtEnd(s, conf) ==
    [set |-> TRUE,
     totalProfit |-> Round(s.currentEquity),
     profitRate |-> ToFixed2(RMul(RDiv(s.currentEquity,
                                       InitialInvestedCapital(conf)), R(100))),
     totalTrades |-> IF s.step > 0 THEN s.trades + 1 ELSE s.trades,
     winCount |-> s.wins, lossCount |-> s.losses,
     maxDrawdown |-> ToFixed2(s.mdd)]

\* lines 428-432
BacktestResult(s, conf) ==
    [set |-> TRUE,
     totalProfit |-> Round(s.balance),
     profitRate |-> ToFixed2(RMul(RDiv(s.balance,
                                       InitialInvestedCapital(conf)), R(100))),
     totalTrades |-> s.trades, winCount |-> s.wins, lossCount |-> s.losses,
     maxDrawdown |-> ToFixed2(s.mdd)]

\* lines 372-376, up to the await; the button is disabled while a replay runs
\* (line 701)
RunBacktest ==
    /\ bt.pc = "idle"
    /\ bt' = BtLocals("fetch")
    /\ btResult' = NoBtResult
    /\ UNCHANGED << config, live, kern >>

\* lines 377 and 433-437: no candles came back (fetchDailyCandlesLong returns
\* [] on an error)
BtNoCandles ==
    /\ bt.pc = "fetch"
    /\ bt' = BtIdle
    /\ UNCHANGED << config, live, kern, btResult >>

\* lines 376-380: candles came back
BtCandles ==
    /\ bt.pc = "fetch"
    /\ bt' = BtLocals("loop")
    /\ UNCHANGED << config, live, kern, btResult >>

\* lines 382-426
BtBar(candle) ==
    /\ bt.pc = "loop"
    /\ bt.bars < MaxBars
    /\ bt' = BtStep(bt, candle, config)
    /\ UNCHANGED << config, live, kern, btResult >>

\* lines 428-437: the list is exhausted
BtFinish ==
    /\ bt.pc = "loop"
    /\ bt.bars >= 1
    /\ btResult' = BacktestResult(bt, config)
    /\ bt' = BtIdle
    /\ UNCHANGED << config, live, kern >>

BtInit ==
    /\ config \in BtConfigs
    /\ LiveInit
    /\ bt = BtIdle
    /\ btResult = NoBtResult
    /\ kern = NoKern

BtNext ==
    \/ RunBacktest
    \/ BtNoCandles
    \/ BtCandles
    \/ \E candle \in CandlesFor(config) : BtBar(candle)
    \/ BtFinish

SpecBacktest == BtInit /\ [][BtNext]_vars

\* lines 382 and 428-437: the for loop is left when the list is exhausted;
\* these are the steps of BtFinish, told by what they do to the locals
BtLoopExit ==
    /\ bt.pc = "loop"
    /\ bt.bars >= 1
    /\ bt' = BtIdle

\* the replay with its for loop running on to the end of the list
SpecBacktestLive == SpecBacktest /\ WF_bt(BtLoopExit)

(***************************************************************************)
(* The two drivers side by side on one price sequence: handleToggleBot     *)
(* started on the first price and one updateLoop invocation per later      *)
(* price, each running to its end with its order accepted before the next  *)
(* begins, and runBacktest on the candles with low = high = price.         *)
(***************************************************************************)
\* rules with positive thresholds
LockConfigs == {ConfLadder, ConfTwo, ConfCascade, ConfScenario}

LockPrices == Prices \cup {95}

\* lines 204-249: the closure of an invocation that decided to scale in
ScaleCur(st, conf, p) ==
    [currentPrice |-> p, currentStatus |-> Snapshot(st),
     order |-> Order("bid", "price", BuyAmount(conf, st.currentStep + 1))]

\* lines 207-280 with the order of line 225 or 249 accepted
TickDone(st, conf, p) ==
    LET d == Decision(st, conf, p)
    IN  IF d = "exit" THEN ExitReset(st, p)
        ELSE IF d = "scale" THEN ApplyBuy(st, ScaleCur(st, conf, p))
        ELSE [st EXCEPT !.currentPrice = p]

\* lines 326-352 and 382-392: both drivers open on the first price
LockStart(p) ==
    /\ bt.pc = "loop" /\ bt.bars = 0
    /\ ~status.isActive
    /\ status' = StartStatus([buyPrice |-> p,
                              order |-> Order("bid", "price",
                                          R(config.initialAmount * 10000))])
    /\ lastSettled' = Settled("bid", "ok")
    /\ bt' = BtStep(bt, Candle(R(p), R(p), R(p)), config)
    /\ UNCHANGED << config, tradeHistory, isStarting, pc, cur, startPc,
                    startCur, exits, btResult, kern >>

\* lines 186-298 and 382-426: the next price, as a tick and as a candle, while
\* neither driver has closed its position
LockTick(p) ==
    /\ bt.pc = "loop" /\ bt.bars >= 1 /\ bt.bars < MaxBars
    /\ bt.trades = 0 /\ status.isActive
    /\ status' = TickDone(status, config, p)
    /\ tradeHistory' = IF Decision(status, config, p) = "exit"
                       THEN << Record(status, config, p) >> \o tradeHistory
                       ELSE tradeHistory
    /\ exits' = IF Decision(status, config, p) = "exit" THEN exits + 1
                ELSE exits
    /\ lastSettled' = CASE Decision(status, config, p) = "exit"
                              -> Settled("ask", "ok")
                        [] Decision(status, config, p) = "scale"
                              -> Settled("bid", "ok")
                        [] OTHER -> lastSettled
    /\ bt' = BtStep(bt, Candle(R(p), R(p), R(p)), config)
    /\ UNCHANGED << config, isStarting, pc, cur, startPc, startCur,
                    btResult, kern >>

LockInit ==
    /\ config \in LockConfigs
    /\ LiveInit
    /\ bt = BtLocals("loop")
    /\ btResult = NoBtResult
    /\ kern = NoKern

LockNext ==
    \/ \E p \in LockPrices : LockStart(p)
    \/ \E p \in LockPrices : LockTick(p)

SpecLockstep == LockInit /\ [][LockNext]_vars

\* what the tick at price p decides: hold, scale, PROFIT or LOSS
LiveDecision(st, conf, p) ==
    IF Decision(st, conf, p) = "exit" THEN ExitType(Pnl(st, p), conf)
    ELSE Decision(st, conf, p)

\* what the last candle did to the replay: hold, scale, PROFIT or LOSS
BtDecision(s) ==
    CASE s.event = "win" -> "PROFIT"
      [] s.event = "loss" -> "LOSS"
      [] s.event = "hold" /\ s.fills > 0 -> "scale"
      [] OTHER -> s.event

(***************************************************************************)
(* The second App, pasted after the InputGroup component in                *)
(* src/components/InputGroup.tsx: its updateLoop (lines 153-194, every 2   *)
(* seconds, no isStarting test, no scale-in code, no trade history), its   *)
(* handleToggleBot (lines 384-399) and its stop button (line 377).  It has *)
(* the same state as the first App and is modelled on the same variables;  *)
(* one start is followed at a time.                                        *)
(***************************************************************************)
\* line 154: the interval fires
VTickFire(t) ==
    /\ pc[t] = "idle"
    /\ \A u \in TickIds : u < t => pc[u] # "idle"
    /\ Cardinality(InFlight) < MaxHistory
    /\ pc' = [pc EXCEPT ![t] = "fetching"]
    /\ UNCHANGED << kern, bt, btResult >>
    /\ UNCHANGED << config, status, tradeHistory, isStarting, cur, startPc,
                    startCur, lastSettled, exits >>

\* lines 157-158 and 190: no ticker
VTickFetchFail(t) ==
    /\ pc[t] = "fetching"
    /\ pc' = [pc EXCEPT ![t] = "idle"]
    /\ UNCHANGED << kern, bt, btResult >>
    /\ UNCHANGED << config, status, tradeHistory, isStarting, cur, startPc,
                    startCur, lastSettled, exits >>

\* lines 160-183: the exit branch awaits the sell order; every other branch
\* only stores the price
VTickDecide(t, p) ==
    /\ pc[t] = "fetching"
    /\ IF status.isActive /\ ExitCond(Pnl(status, p), config)
       THEN /\ cur' = [cur EXCEPT ![t] =
                   [currentPrice |-> p, currentStatus |-> NoSnapshot,
                    order |-> Order("ask", "market", status.totalQuantity)]]
            /\ pc' = [pc EXCEPT ![t] = "selling"]
            /\ UNCHANGED status
       ELSE /\ status' = [status EXCEPT !.currentPrice = p]
            /\ pc' = [pc EXCEPT ![t] = "idle"]
            /\ UNCHANGED cur
    /\ UNCHANGED << kern, bt, btResult >>
    /\ UNCHANGED << config, tradeHistory, isStarting, startPc, startCur,
                    lastSettled, exits >>

\* lines 175 and 180: the sell order was accepted
VExitDone(st, price) ==
    [st EXCEPT !.isActive = FALSE, !.currentStep = 0, !.currentPrice = price]

\* VExitFailed closing the position as the first App does
VExitFailed_Abandons(st, price) ==
    [st EXCEPT !.isActive = FALSE, !.currentStep = 0, !.currentPrice = price]

\* lines 176 and 180: the sell order threw, the error is alerted
VExitFailed(st, price) ==
    [st EXCEPT !.currentPrice = price]

VSellOk(t) ==
    /\ pc[t] = "selling"
    /\ lastSettled' = Settled("ask", "ok")
    /\ status' = VExitDone(status, cur[t].currentPrice)
    /\ pc' = [pc EXCEPT ![t] = "idle"]
    /\ cur' = [cur EXCEPT ![t] = NoCur]
    /\ UNCHANGED << kern, bt, btResult >>
    /\ UNCHANGED << config, tradeHistory, isStarting, startPc, startCur,
                    exits >>

VSellFail(t) ==
    /\ pc[t] = "selling"
    /\ lastSettled' = Settled("ask", "fail")
    /\ status' = VExitFailed(status, cur[t].currentPrice)
    /\ pc' = [pc EXCEPT ![t] = "idle"]
    /\ cur' = [cur EXCEPT ![t] = NoCur]
    /\ UNCHANGED << kern, bt, btResult >>
    /\ UNCHANGED << config, tradeHistory, isStarting, startPc, startCur,
                    exits >>

\* lines 377 and 384-390: the button starts when the position is inactive
VStartBegin ==
    /\ ~status.isActive
    /\ startPc = "idle"
    /\ isStarting' = TRUE
    /\ startPc' = "fetch"
    /\ UNCHANGED << kern, bt, btResult >>
    /\ UNCHANGED << config, status, tradeHistory, pc, cur, startCur,
                    lastSettled, exits >>

\* line 392: no ticker
VStartFetchFail ==
    /\ startPc = "fetch"
    /\ startPc' = "idle"
    /\ isStarting' = FALSE
    /\ UNCHANGED << kern, bt, btResult >>
    /\ UNCHANGED << config, status, tradeHistory, pc, cur, startCur,
                    lastSettled, exits >>

\* lines 393-394
VStartFetchOk(p) ==
    /\ startPc = "fetch"
    /\ startPc' = "order"
    /\ startCur' = [buyPrice |-> p,
                    order |-> Order("bid", "price",
                                    R(config.initialAmount * 10000))]
    /\ UNCHANGED << kern, bt, btResult >>
    /\ UNCHANGED << config, status, tradeHistory, isStarting, pc, cur,
                    lastSettled, exits >>

\* line 395
VStartStatus(c) ==
    [isActive |-> TRUE, currentStep |-> 1, averagePrice |-> R(c.buyPrice),
     lastBuyPrice |-> c.buyPrice,
     totalQuantity |-> RDiv(c.order.size, R(c.buyPrice)),
     totalInvested |-> c.order.size, currentPrice |-> c.buyPrice]

VStartOrderOk ==
    /\ startPc = "order"
    /\ lastSettled' = Settled("bid", "ok")
    /\ status' = VStartStatus(startCur)
    /\ startPc' = "idle"
    /\ startCur' = NoStart
    /\ isStarting' = FALSE
    /\ UNCHANGED << kern, bt, btResult >>
    /\ UNCHANGED << config, tradeHistory, pc, cur, exits >>

\* lines 396-399
VStartOrderFail ==
    /\ startPc = "order"
    /\ lastSettled' = Settled("bid", "fail")
    /\ startPc' = "idle"
    /\ startCur' = NoStart
    /\ isStarting' = FALSE
    /\ UNCHANGED << kern, bt, btResult >>
    /\ UNCHANGED << config, status, tradeHistory, pc, cur, exits >>

\* line 377: the button on an active position only clears isActive
VStop ==
    /\ status.isActive
    /\ status' = [status EXCEPT !.isActive = FALSE]
    /\ UNCHANGED << kern, bt, btResult >>
    /\ UNCHANGED << config, tradeHistory, isStarting, pc, cur, startPc,
                    startCur, lastSettled, exits >>

VNext ==
    \/ \E t \in TickIds : VTickFire(t)
    \/ \E t \in TickIds : VTickFetchFail(t)
    \/ \E t \in TickIds, p \in Prices : VTickDecide(t, p)
    \/ \E t \in TickIds : VSellOk(t)
    \/ \E t \in TickIds : VSellFail(t)
    \/ VStartBegin
    \/ VStartFetchFail
    \/ \E p \in Prices : VStartFetchOk(p)
    \/ VStartOrderOk
    \/ VStartOrderFail
    \/ VStop

SpecVariant == Init /\ [][VNext]_vars

(***************************************************************************)
(* The pricing expressions on their own: the PnL of line 208, the decision *)
(* chain of lines 207-280 and the buy sizes of lines 246, 337 and 410,     *)
(* evaluated on inputs drawn from bounded sets.                            *)
(***************************************************************************)
\* an open position at step k with the given average price; 0 stands for a
\* position record whose averagePrice is 0
Position(avg, k) ==
    [isActive |-> TRUE, currentStep |-> k, averagePrice |-> R(avg),
     totalQuantity |-> IF avg = 0 THEN Zero ELSE RDiv(R(10000 * k), R(avg)),
     totalInvested |-> R(10000 * k), currentPrice |-> avg,
     lastBuyPrice |-> avg]

AveragePrices == Prices \cup {0}

KernInit ==
    /\ config \in BtConfigs
    /\ LiveInit
    /\ bt = BtIdle
    /\ btResult = NoBtResult
    /\ \E avg \in AveragePrices, k \in 1 .. MaxSizeStep, p \in Prices :
          kern = [done |-> FALSE, asked |-> TRUE,
                  st |-> Position(avg, k), price |-> p, step |-> k]

\* the expressions applied to the inputs
KernEval ==
    /\ kern.asked /\ ~kern.done
    /\ kern' = [done |-> TRUE, asked |-> TRUE,
                st |-> kern.st, price |-> kern.price, step |-> kern.step,
                pnl |-> Pnl(kern.st, kern.price),
                decision |-> Decision(kern.st, config, kern.price),
                size |-> BuyAmount(config, kern.step),
                sizeAfter |-> BuyAmount(config, kern.step + 1),
                initialBuyAmount |-> R(config.initialAmount * 10000),
                btSize |-> IF kern.step = 1
                           THEN InitialInvestedCapital(config)
                           ELSE BtBuyAmount(config, kern.step)]
    /\ UNCHANGED << config, live, bt, btResult >>

KernNext == KernEval

SpecKernel == KernInit /\ [][KernNext]_vars

(***************************************************************************)
(* Properties of the live engine.                                          *)
(***************************************************************************)
Ordering == {t \in TickIds : pc[t] \in {"selling", "buying"}}

IsReset(st) ==
    /\ st.currentStep = 0
    /\ st.averagePrice = Zero
    /\ st.totalQuantity = Zero
    /\ st.totalInvested = Zero
    /\ st.lastBuyPrice = 0

\* C1: at most one order of updateLoop is outstanding at any time, so no two
\* invocations scale in from the same currentStep.
C1_OneOrderOutstanding == Cardinality(Ordering) <= 1

\* C2: for every position opened by start at most one exit is taken: at most
\* one sell order is issued and at most one TradeRecord appended.
C2_ExitAtMostOnce == exits <= 1

\* C3: an inactive position has currentStep, averagePrice, totalQuantity,
\* totalInvested and lastBuyPrice all zero.
C3_InactiveIsReset == ~status.isActive => IsReset(status)

\* C4: with maxSteps >= 1 and fixed rules, 0 <= currentStep <= maxSteps in
\* every reachable state.
C4_StepInRange ==
    /\ config.maxBuySteps >= 1
    /\ status.currentStep >= 0
    /\ status.currentStep <= config.maxBuySteps

\* C4 witness: the ladder is full and a tick below the next threshold held.
C4_Witness ==
    /\ status.isActive
    /\ config.maxBuySteps >= 2
    /\ status.currentStep = config.maxBuySteps
    /\ RLe(R(status.currentPrice), NextBuyThreshold(status, config))

\* C5: currentStep never decreases while the position stays active, becomes 0
\* only by an exit or stop, and is 0 whenever the position is inactive.
C5_StepMonotone ==
    [][ /\ (status.isActive /\ status'.isActive)
            => status'.currentStep >= status.currentStep
        /\ (status.currentStep # 0 /\ status'.currentStep = 0)
            => (Stop \/ \E t \in TickIds : SellOk(t) \/ SellFail(t))
        /\ ~status'.isActive => status'.currentStep = 0 ]_vars

\* C6: while the position is active, currentStep >= 1 and
\* averagePrice * totalQuantity = totalInvested.
C6_ActiveAverage ==
    status.isActive =>
        /\ status.currentStep >= 1
        /\ RMul(status.averagePrice, status.totalQuantity)
               = status.totalInvested

\* C6 witness: an active position after a scale-in at another price.
C6_Witness ==
    /\ status.isActive
    /\ status.currentStep >= 2
    /\ status.averagePrice # R(status.lastBuyPrice)

\* C7: a tick on an active position at which an exit condition holds issues
\* the sell and no scale-in buy, also when the scale-in condition holds too.
C7_ExitBeforeScale ==
    [][ \A t \in TickIds, p \in Prices :
          (TickDecide(t, p) /\ status.isActive
             /\ ExitCond(Pnl(status, p), config))
          => (pc'[t] = "selling" /\ cur'[t].order.side = "ask") ]_vars

\* C7 witness: a sell is pending at a price at which the position, still as
\* the tick read it, also meets the scale-in condition.
C7_Witness ==
    \E t \in TickIds :
        /\ pc[t] = "selling"
        /\ status.isActive
        /\ cur[t].order.size = status.totalQuantity
        /\ ExitCond(Pnl(status, cur[t].currentPrice), config)
        /\ ScaleCond(status, config, cur[t].currentPrice)

\* C8: every recorded exit is PROFIT when pnl >= targetProfit, also when
\* pnl <= -stopLoss holds too, LOSS only when pnl <= -stopLoss and
\* pnl < targetProfit, and no exit is recorded when neither bound is reached.
C8_ProfitDominates ==
    \A i \in 1 .. Len(tradeHistory) :
        LET r == tradeHistory[i]
            profit == RLe(R(config.targetProfit), r.pnlPercentage)
            loss == RLe(r.pnlPercentage, R(-config.stopLoss))
        IN  /\ r.exitType \in {"PROFIT", "LOSS"}
            /\ profit => r.exitType = "PROFIT"
            /\ r.exitType = "LOSS" => (loss /\ ~profit)
            /\ profit \/ loss

\* C8 witness: a recorded exit at which both bounds were met.
C8_Witness ==
    \E i \in 1 .. Len(tradeHistory) :
        /\ RLe(R(config.targetProfit), tradeHistory[i].pnlPercentage)
        /\ RLe(tradeHistory[i].pnlPercentage, R(-config.stopLoss))
        /\ tradeHistory[i].exitType = "PROFIT"

\* C9: a tick whose decision is an exit issues a market sell of totalQuantity
\* and appends a TradeRecord, and when that order returns, resolved or
\* thrown, the position is reset to inactive.
C9_ExitAlwaysResets ==
    [][ /\ \A t \in TickIds, p \in Prices :
              (TickDecide(t, p) /\ Decision(status, config, p) = "exit")
              => /\ pc'[t] = "selling"
                 /\ cur'[t].order
                        = Order("ask", "market", status.totalQuantity)
                 /\ Len(tradeHistory') = Len(tradeHistory) + 1
                 /\ tradeHistory'[1].finalStep = status.currentStep
        /\ \A t \in TickIds :
              (pc[t] = "selling" /\ pc'[t] = "idle")
              => (~status'.isActive /\ IsReset(status')) ]_vars

\* C9 witness: the exit order threw and the position is closed.
C9_Witness ==
    /\ lastSettled = Settled("ask", "fail")
    /\ Len(tradeHistory) >= 1
    /\ ~status.isActive
    /\ IsReset(status)

\* C10: a scale-in order that throws changes no field of the position, and a
\* tick at the same price on the position as the failed tick read it decides
\* to scale in again.
C10_FailedBuyLeavesState ==
    [][ \A t \in TickIds :
          (pc[t] = "buying" /\ pc'[t] = "idle"
             /\ lastSettled' = Settled("bid", "fail"))
          => /\ status' = status
             /\ (status.isActive /\ Snapshot(status) = cur[t].currentStatus)
                => Decision(status', config', cur[t].currentPrice) = "scale"
       ]_vars

\* C10 witness: after a scale-in order threw the position is still active and
\* a buy for the same step is in flight.
C10_Witness ==
    /\ lastSettled = Settled("bid", "fail")
    /\ status.isActive
    /\ \E t \in TickIds :
          /\ pc[t] = "buying"
          /\ cur[t].currentStatus = Snapshot(status)

\* C11: a tick at which no exit condition holds issues a scale-in buy exactly
\* when the position is active, currentStep < maxSteps and the price is at or
\* below lastBuyPrice * (1 - buyInterval/100), at most one buy per tick, and a
\* successful buy sets currentStep to currentStep + 1 and lastBuyPrice to the
\* tick price.
C11_ScaleInExactly ==
    [][ /\ \A t \in TickIds, p \in Prices :
              (TickDecide(t, p)
                 /\ ~(status.isActive /\ ExitCond(Pnl(status, p), config)))
              => /\ (pc'[t] = "buying")
                        <=> (status.isActive
                               /\ status.currentStep < config.maxBuySteps
                               /\ RLe(R(p), NextBuyThreshold(status, config)))
                 /\ pc'[t] = "buying"
                        => cur'[t].order = Order("bid", "price",
                               BuyAmount(config, status.currentStep + 1))
                 /\ \A u \in TickIds \ {t} : pc'[u] = pc[u] /\ cur'[u] = cur[u]
        /\ \A t \in TickIds :
              (pc[t] = "buying" /\ pc'[t] = "idle"
                 /\ lastSettled' = Settled("bid", "ok"))
              => /\ status'.currentStep = status.currentStep + 1
                 /\ status'.lastBuyPrice = cur[t].currentPrice ]_vars

\* C13: a successful start places one buy order of the step-1 size, the
\* unscaled initial amount, and opens the position at step 1 with averagePrice
\* and lastBuyPrice the fill price, totalQuantity = amount / price and
\* totalInvested = amount.
C13_StartOpensAtStepOne ==
    [][ /\ (startPc = "fetch" /\ startPc' = "order")
            => /\ startCur'.order
                      = Order("bid", "price", BuyAmount(config, 1))
               /\ BuyAmount(config, 1) = R(config.initialAmount * 10000)
               /\ pc' = pc /\ cur' = cur
        /\ (startPc = "order" /\ startPc' = "idle"
              /\ lastSettled' = Settled("bid", "ok"))
            => /\ status'.isActive
               /\ status'.currentStep = 1
               /\ status'.averagePrice = R(startCur.buyPrice)
               /\ status'.lastBuyPrice = startCur.buyPrice
               /\ status'.totalQuantity
                      = RDiv(BuyAmount(config, 1), R(startCur.buyPrice))
               /\ status'.totalInvested = BuyAmount(config, 1)
               /\ pc' = pc /\ cur' = cur ]_vars

\* C13 witness: a position just opened by start.
C13_Witness ==
    /\ status.isActive
    /\ status.currentStep = 1
    /\ exits = 0
    /\ lastSettled = Settled("bid", "ok")
    /\ status.totalInvested = R(config.initialAmount * 10000)
    /\ status.currentPrice = status.lastBuyPrice
    /\ InFlight = {}

\* C14: a start that gets no price places no order, a start whose order is
\* rejected opens nothing; both leave the position inactive and unchanged and
\* clear isStarting.
C14_FailedStartNoEffect ==
    [][ /\ (startPc = "fetch" /\ startPc' = "idle")
            => /\ status' = status
               /\ ~status'.isActive
               /\ ~isStarting'
               /\ startCur = NoStart /\ startCur' = NoStart
               /\ pc' = pc /\ cur' = cur
        /\ (startPc = "order" /\ startPc' = "idle"
              /\ lastSettled' = Settled("bid", "fail"))
            => /\ status' = status
               /\ ~status'.isActive
               /\ ~isStarting' ]_vars

\* C14 witness: the only order ever settled was rejected and nothing has
\* touched the position.
C14_Witness ==
    /\ status = InitStatus
    /\ lastSettled = Settled("bid", "fail")
    /\ startPc = "idle"
    /\ ~isStarting

\* C15 as claimed: pressing start on an active position places no order and
\* leaves every field of the position unchanged.
C15_StartOnActiveRejected ==
    [][ (status.isActive /\ HandleToggleBot)
          => (status' = status /\ startPc' = "idle") ]_vars

\* C15 as amended: pressing the button on an active position never begins a
\* start and places no order; it closes the position.
C15_ToggleOnActiveStops ==
    [][ (status.isActive /\ HandleToggleBot)
          => /\ ~status'.isActive
             /\ startPc' = "idle" /\ startCur' = NoStart /\ ~isStarting'
             /\ pc' = pc /\ cur' = cur ]_vars

\* C15 witness: a position opened by start was closed without an exit.
C15_Witness ==
    /\ ~status.isActive
    /\ exits = 0
    /\ lastSettled = Settled("bid", "ok")
    /\ startPc = "idle"
    /\ ~isStarting

\* C16: stop on an active position sets isActive = false and the five position
\* fields to 0, places no order and appends no TradeRecord.
C16_StopResetsOnly ==
    [][ (status.isActive /\ Stop)
          => /\ ~status'.isActive
             /\ IsReset(status')
             /\ status'.currentPrice = status.currentPrice
             /\ tradeHistory' = tradeHistory
             /\ pc' = pc /\ cur' = cur
             /\ startPc' = startPc /\ startCur' = startCur
             /\ lastSettled' = lastSettled ]_vars

\* C16 witness: stopped with no order pending and an empty trade history.
C16_Witness ==
    /\ ~status.isActive
    /\ IsReset(status)
    /\ status.currentPrice # 0
    /\ exits = 0
    /\ lastSettled = Settled("bid", "ok")
    /\ tradeHistory = << >>
    /\ Ordering = {}

\* C12: the rules are fixed for a run: a configuration edit made while the
\* position is active changes neither the decision the next tick takes at any
\* price nor the size of the next buy, and never leaves currentStep above the
\* step cap.
C12_RulesFixedPerRun ==
    [][ \A field \in EditFields : \A value \in EditValues(field) :
          (status.isActive /\ HandleChange(field, value))
            => /\ \A p \in Prices :
                     Decision(status, config', p) = Decision(status, config, p)
               /\ BuyAmount(config', status.currentStep + 1)
                     = BuyAmount(config, status.currentStep + 1)
               /\ status.currentStep <= config'.maxBuySteps ]_vars

C18_SizeForStep ==
    kern.done
        => /\ kern.size
                  = RMul(kern.initialBuyAmount,
                         RPow(Norm(100 + config.premiumRate, 100),
                              kern.step - 1))
           /\ kern.btSize = kern.size
           /\ kern.step = 1 => kern.size = kern.initialBuyAmount
           /\ config.premiumRate >= 0 => RLe(kern.size, kern.sizeAfter)
           /\ (kern.initialBuyAmount = R(10000) /\ config.premiumRate = 10
                 /\ kern.step = 3)
                  => kern.size = R(12100)

\* C18 witness: step 3 of a ladder of 10000 growing by 10 % is sized 12100 by
\* both drivers.
C18_Witness ==
    /\ kern.done
    /\ kern.step = 3
    /\ config.premiumRate = 10
    /\ kern.initialBuyAmount = R(10000)
    /\ kern.size = R(12100)
    /\ kern.btSize = R(12100)

\* C19: a backtest bar with an open position whose range reaches both the
\* stop-loss and the take-profit price is settled as a loss (losses + 1, wins
\* unchanged, position closed); a bar is a win only if the stop-loss price is
\* not reached.
C19_StopLossFirst ==
    [][ \A candle \in CandlesFor(config) :
          /\ (BtBar(candle) /\ bt.step > 0
                /\ RLe(candle.low, SlPrice(bt, config))
                /\ RLe(TpPrice(bt, config), candle.high))
              => /\ bt'.losses = bt.losses + 1
                 /\ bt'.wins = bt.wins
                 /\ bt'.trades = bt.trades + 1
                 /\ bt'.step = 0
          /\ (BtBar(candle) /\ bt'.wins # bt.wins)
              => /\ bt.step > 0
                 /\ bt'.wins = bt.wins + 1
                 /\ RLt(SlPrice(bt, config), candle.low)
                 /\ RLe(TpPrice(bt, config), candle.high) ]_vars

\* C19 witness: the last bar spanned both prices of the position it closed,
\* and closed it as a loss.
C19_Witness ==
    /\ bt.pc = "loop"
    /\ bt.event = "loss"
    /\ bt.step = 0
    /\ RLe(bt.candle.low, SlPrice(bt, config))
    /\ RLe(TpPrice(bt, config), bt.candle.high)

\* C20: on a backtest bar with an open position and no exit, the fills cascade:
\* k fills leave lastBuyPrice at lastBuyPrice * (1 - buyInterval/100)^k, fills
\* happen only below maxBuySteps and at prices the bar's low reached, and after
\* the bar either step = maxBuySteps or the low is above the next threshold.
C20_CascadeFills ==
    [][ \A candle \in CandlesFor(config) :
          (BtBar(candle) /\ bt.step > 0
             /\ RLt(SlPrice(bt, config), candle.low)
             /\ RLt(candle.high, TpPrice(bt, config)))
            => LET k == bt'.step - bt.step
               IN  /\ k >= 0
                   /\ bt'.step <= config.maxBuySteps \/ k = 0
                   /\ bt'.lastBuyPrice
                          = RMul(bt.lastBuyPrice,
                                 RPow(Norm(100 - config.buyInterval, 100), k))
                   /\ k > 0 => RLe(candle.low, bt'.lastBuyPrice)
                   /\ \/ bt'.step >= config.maxBuySteps
                      \/ RLt(NextBuyPrice(bt', config), candle.low) ]_vars

\* C20 witness: at 2 % a bar with low 94 took a position opened at 100 through
\* the fills at 98 and 96.04, the next threshold being 94.1192.
C20_Witness ==
    /\ bt.pc = "loop"
    /\ bt.event = "hold"
    /\ config.buyInterval = 2
    /\ bt.fills = 2
    /\ bt.step = config.maxBuySteps
    /\ bt.lastBuyPrice = << 2401, 25 >>
    /\ NextBuyPrice(bt, config) = << 117649, 1250 >>
    /\ bt.candle.low = R(94)

\* the bar takes an exit: a position is open and the bar reaches its stop-loss
\* or its take-profit price
ExitBar(s, candle, conf) ==
    /\ s.step > 0
    /\ \/ RLe(candle.low, SlPrice(s, conf))
       \/ RLe(TpPrice(s, conf), candle.high)

\* C21: a position still open after the last bar is left unrealized: the
\* result reports the trades, wins, losses and banked balance of the exits
\* taken, and those change only on bars where an exit is taken.
C21_OpenPositionUnrealized ==
    [][ /\ BtFinish
            => /\ btResult'.totalTrades = bt.trades
               /\ btResult'.winCount = bt.wins
               /\ btResult'.lossCount = bt.losses
               /\ btResult'.totalProfit = Round(bt.balance)
        /\ \A candle \in CandlesFor(config) :
              (BtBar(candle) /\ ~ExitBar(bt, candle, config))
                => /\ bt'.balance = bt.balance
                   /\ bt'.trades = bt.trades
                   /\ bt'.wins = bt.wins
                   /\ bt'.losses = bt.losses ]_vars

\* C21 witness: a replay of at least one bar that never took an exit, so its
\* position was open at the end, reported no trade and no profit.
C21_Witness ==
    /\ btResult.set
    /\ bt.pc = "idle"
    /\ btResult.totalTrades = 0
    /\ btResult.winCount = 0 /\ btResult.lossCount = 0
    /\ btResult.totalProfit = 0
    /\ btResult.maxDrawdown # Zero

\* C22: the maximum drawdown is >= 0 after every bar and never decreases, a bar
\* whose running peak is <= 0 contributes nothing, and it is 0 at the end of a
\* replay whose per-bar equity never fell.
C22_DrawdownBound ==
    [][ /\ \A candle \in CandlesFor(config) :
              BtBar(candle)
                => /\ RLe(Zero, bt'.mdd)
                   /\ RLe(bt.mdd, bt'.mdd)
                   /\ RLe(bt'.peak, Zero) => bt'.mdd = bt.mdd
                   /\ bt'.currentEquity = CurrentEquity(bt', candle.price)
                   /\ bt'.rising => bt'.mdd = Zero
        /\ (BtFinish /\ bt.rising) => btResult'.maxDrawdown = Zero ]_vars

\* C22 witness: three bars or more with a closed trade, equity never falling,
\* and no drawdown.
C22_Witness ==
    /\ bt.pc = "loop"
    /\ bt.bars >= 3
    /\ bt.trades >= 1
    /\ bt.rising
    /\ RLt(Zero, bt.currentEquity)
    /\ bt.mdd = Zero

\* a bar with low = high = price
Flat(price) == Candle(price, price, price)

\* the bars of the end-to-end scenario: 100, 95, 90.25, 100
ScenarioBars == << Flat(R(100)), Flat(R(95)), Flat(<< 361, 4 >>), Flat(R(100)) >>

\* C23: with {maxSteps 3, buyInterval 5, targetProfit 5, stopLoss 10, initial
\* buy 10000, premium 0} and flat bars 100, 95, 90.25, 100 the backtest buys at
\* 100 (step 1, quantity 100), scales in at 95 (step 2) and at 90.25 (step 3),
\* takes one PROFIT exit on the last bar and reports totalTrades = 1,
\* winCount = 1, lossCount = 0, no open position, profitRate > 0.
C23_EndToEndScenario ==
    [][ (config = ConfScenario /\ bt'.pc = "loop")
          => /\ bt'.seen = SubSeq(ScenarioBars, 1, 1)
                  => /\ bt'.step = 1 /\ bt'.totalQty = R(100)
                     /\ bt'.lastBuyPrice = R(100)
                     /\ bt'.totalInvested = R(10000)
             /\ bt'.seen = SubSeq(ScenarioBars, 1, 2)
                  => /\ bt'.step = 2 /\ bt'.lastBuyPrice = R(95)
                     /\ bt'.trades = 0
             /\ bt'.seen = SubSeq(ScenarioBars, 1, 3)
                  => /\ bt'.step = 3 /\ bt'.lastBuyPrice = << 361, 4 >>
                     /\ bt'.step = config.maxBuySteps
                     /\ bt'.trades = 0
             /\ bt'.seen = ScenarioBars
                  => /\ bt'.step = 0 /\ bt'.totalQty = Zero
                     /\ bt'.trades = 1 /\ bt'.wins = 1 /\ bt'.losses = 0
                     /\ RLt(Zero, bt'.balance)
                     /\ BacktestResult(bt', config).totalTrades = 1
                     /\ BacktestResult(bt', config).winCount = 1
                     /\ BacktestResult(bt', config).lossCount = 0
                     /\ RLt(Zero, BacktestResult(bt', config).profitRate)
      ]_vars

\* C23 witness: the four bars of the scenario replayed, closed by one win.
C23_Witness ==
    /\ config = ConfScenario
    /\ bt.pc = "loop"
    /\ bt.seen = ScenarioBars
    /\ bt.event = "win"
    /\ bt.balance = R(1500)

\* C24: on a price sequence fed to the live engine as ticks and to the backtest
\* as flat bars, up to and including the first exit both take the same decision
\* at every price and hold the same currentStep and totalInvested, and the same
\* averagePrice while the position is open.
C24_SameKernel ==
    [][ \A p \in LockPrices :
          LockTick(p)
            => /\ LiveDecision(status, config, p) = BtDecision(bt')
               /\ status'.currentStep = bt'.step
               /\ status'.totalInvested = bt'.totalInvested
               /\ bt'.step > 0 => status'.averagePrice = bt'.avgPrice ]_vars

\* C26: in the second engine a failed sell order leaves isActive and
\* currentStep as they are, so the position the order was for, when still
\* active, meets the exit condition at the stored price and the next tick sells
\* again; the position becomes inactive with currentStep = 0 only when a sell
\* order was accepted.
C26_VariantRetriesExit ==
    [][ /\ \A t \in TickIds :
              VSellFail(t)
                => /\ status'.isActive = status.isActive
                   /\ status'.currentStep = status.currentStep
                   /\ (status'.isActive
                         /\ status.totalQuantity = cur[t].order.size)
                        => /\ ExitCond(Pnl(status', status'.currentPrice),
                                       config)
                           /\ status'.currentPrice = cur[t].currentPrice
        /\ (~status'.isActive /\ status'.currentStep = 0
              /\ (status.isActive \/ status.currentStep # 0))
            => /\ lastSettled' = Settled("ask", "ok")
               /\ \E t \in TickIds : pc[t] = "selling" /\ pc'[t] = "idle"
      ]_vars

\* C26 witness: the last order was a rejected sell and the position is still
\* open at a price that meets the exit condition.
C26_Witness ==
    /\ lastSettled = Settled("ask", "fail")
    /\ status.isActive
    /\ status.currentStep = 1
    /\ ExitCond(Pnl(status, status.currentPrice), config)
    /\ InFlight = {}

\* C25: a tick that finds the position inactive stores the fetched price and
\* nothing else: it places no order, adds no trade record and leaves isActive,
\* currentStep, averagePrice, totalQuantity, totalInvested and lastBuyPrice as
\* they were.
C25_InactiveTickOnlyPrice ==
    [][ \A t \in TickIds, p \in Prices :
          (TickDecide(t, p) /\ ~status.isActive)
            => /\ status' = [status EXCEPT !.currentPrice = p]
               /\ tradeHistory' = tradeHistory
               /\ pc'[t] = "idle"
               /\ cur' = cur
               /\ lastSettled' = lastSettled
               /\ exits' = exits ]_vars

\* C25 witness: ticks have priced a position that was never started.
C25_Witness ==
    /\ ~status.isActive
    /\ status.currentPrice # 0
    /\ IsReset(status)
    /\ lastSettled = NoSettled
    /\ tradeHistory = << >>
    /\ startPc = "idle"
    /\ InFlight = {}

\* C27: while the position is active every accepted scale-in order raises
\* currentStep by one and totalInvested by the amount of that order, so that
\* currentStep counts the position's accepted buy orders and totalInvested is
\* the sum of their amounts.
C27_StepCountsBuys ==
    [][ \A t \in TickIds :
          (BuyOk(t) /\ status.isActive)
            => /\ status'.currentStep = status.currentStep + 1
               /\ status'.totalInvested =
                     RAdd(status.totalInvested, cur[t].order.size) ]_vars

\* C28: the trade record a tick prepends agrees with the position and the
\* rules that tick read: PROFIT only with pnlPercentage >= targetProfit, LOSS
\* only with pnlPercentage <= -stopLoss, finalStep = currentStep with
\* 1 <= finalStep <= maxBuySteps, totalInvested = the position's totalInvested
\* and pnlAmount = totalInvested * pnlPercentage / 100.
C28_RecordConsistent ==
    [][ \A t \in TickIds, p \in Prices :
          (TickDecide(t, p) /\ tradeHistory' # tradeHistory)
            => LET rec == Head(tradeHistory')
               IN  /\ Tail(tradeHistory') = tradeHistory
                   /\ rec.pnlPercentage = Pnl(status, p)
                   /\ rec.exitType \in {"PROFIT", "LOSS"}
                   /\ rec.exitType = "PROFIT"
                        => RLe(R(config.targetProfit), rec.pnlPercentage)
                   /\ rec.exitType = "LOSS"
                        => RLe(rec.pnlPercentage, R(0 - config.stopLoss))
                   /\ rec.finalStep = status.currentStep
                   /\ 1 <= rec.finalStep
                   /\ rec.finalStep <= config.maxBuySteps
                   /\ rec.totalInvested = status.totalInvested
                   /\ RMul(rec.pnlAmount, R(100)) =
                         RMul(rec.totalInvested, rec.pnlPercentage) ]_vars

\* C29: after every bar totalTrades = winCount + lossCount; a bar that takes
\* an exit adds one trade and exactly one win or one loss; with targetProfit > 0
\* and stopLoss > 0 a win banks targetProfit % of the position's totalInvested,
\* which is > 0, and a loss banks -stopLoss % of it, which is < 0.
C29_TradeCounters ==
    [][ \A candle \in CandlesFor(config) :
          BtBar(candle)
            => LET banked == RSub(bt'.balance, bt.balance)
                   win == bt'.wins = bt.wins + 1 /\ bt'.losses = bt.losses
                   loss == bt'.wins = bt.wins /\ bt'.losses = bt.losses + 1
               IN  /\ bt'.trades = bt'.wins + bt'.losses
                   /\ ExitBar(bt, candle, config)
                        => /\ bt'.trades = bt.trades + 1
                           /\ win \/ loss
                           /\ win <=> bt'.event = "win"
                           /\ loss <=> bt'.event = "loss"
                   /\ (/\ ExitBar(bt, candle, config)
                       /\ config.targetProfit > 0
                       /\ config.stopLoss > 0)
                        => /\ win => /\ banked =
                                          RDiv(RMul(bt.totalInvested,
                                                    R(config.targetProfit)),
                                               R(100))
                                     /\ RLt(Zero, banked)
                           /\ loss => /\ banked =
                                          RDiv(RMul(bt.totalInvested,
                                                    R(0 - config.stopLoss)),
                                               R(100))
                                      /\ RLt(banked, Zero) ]_vars

\* C29 witness: a replay that has taken a winning and a losing exit under
\* rules with a positive target and stop.
C29_Witness ==
    /\ bt.pc = "loop"
    /\ bt.wins >= 1
    /\ bt.losses >= 1
    /\ bt.trades = 2
    /\ config.targetProfit > 0
    /\ config.stopLoss > 0

\* C30: with maxBuySteps >= 1 a replay that is among its bars comes to its
\* result; one bar takes at most maxBuySteps - 1 fills; 0 <= step <=
\* maxBuySteps throughout, and step = 0 only before the first bar or after a bar
\* that took an exit: the exit bar opens nothing, the bar after it opens the
\* next position.
C30_BacktestTerminates ==
    /\ (bt.pc = "loop" /\ bt.bars >= 1) ~> (bt.pc = "idle" /\ btResult.set)
    /\ [](bt.pc = "loop" /\ config.maxBuySteps >= 1
            => /\ 0 <= bt.step /\ bt.step <= config.maxBuySteps
               /\ 0 <= bt.fills /\ bt.fills <= config.maxBuySteps - 1
               /\ bt.step = 0 => bt.bars = 0 \/ bt.event \in {"win", "loss"})
    /\ [][ \A candle \in CandlesFor(config) :
             (BtBar(candle) /\ config.maxBuySteps >= 1)
               => /\ bt'.fills = bt'.step - (IF bt'.event = "hold"
                                              THEN bt.step ELSE bt'.step)
                  /\ ExitBar(bt, candle, config) <=> bt'.step = 0
                  /\ bt.step = 0 => bt'.step = 1 /\ bt'.event = "open"
                  /\ bt'.event = "open" => bt.step = 0 ]_vars

\* C30 witness: a replay came to its result after a bar that filled
\* maxBuySteps - 1 rungs at once, an exit bar and a bar that opened again.
C30_Witness ==
    /\ bt.pc = "loop"
    /\ bt.bars = 4
    /\ bt.trades = 1
    /\ bt.step = 1
    /\ bt.event = "open"
    /\ config.maxBuySteps = 3
    /\ \E i \in 1..Len(bt.seen) : bt.seen[i] = Candle(R(90), R(85), R(95))

====
